---- MODULE Spec2Model ----
\* A model of the IEX-TP pull decoder (IEXDecoder) and of the parts of the
\* message layer it calls: IEXTPHeader::Decode, IEXMessageFactory, the variant
\* Decode methods and ValidateTimestamp.
\*
\* Bytes are naturals in 0..255.  A payload is a sequence of bytes; the byte at
\* C++ offset i is element i+1.  16-bit values are naturals; 32- and 64-bit
\* values are kept as their little-endian byte tuples, since they do not fit
\* the model checker's integers.  A read outside the payload of the packet
\* the decoder holds is undefined behaviour: it yields the byte g that the
\* action draws from GarbageBytes.
EXTENDS Integers, Sequences, FiniteSets, TLC

\* ------------------------------------------------------------------ bounds
MaxPackets == 3
MaxCalls == 7
MaxOpens == 1
MaxFaultPackets == 2
MaxReopens == 2

\* ------------------------------------------------------- program constants
first_block_start == 40

NULL == "NULL"

\* ------------------------------------------------------------ byte helpers
Rep(b, n) == [i \in 1..n |-> b]

LE16(n) == <<n % 256, n \div 256>>

\* ----------------------------------------------------- captures (the input)
\* The transport header of a segment as it appears on the wire.
WireHeader(version, payload_len, message_count, sq) ==
  <<version, 0>> \o LE16(32771) \o <<1, 0, 0, 0>> \o <<0, 0, 150, 68>>
    \o LE16(payload_len) \o LE16(message_count) \o Rep(0, 8)
    \o <<sq, 0, 0, 0, 0, 0, 0, 0>> \o <<145, 8, 240, 77, 58, 172, 13, 21>>

\* 2018-01-27, inside the window of ValidateTimestamp.
TsGood == <<145, 8, 240, 77, 58, 172, 13, 21>>
\* 1970-01-01, outside it.
TsBad == Rep(0, 8)

\* A block: 2-byte length prefix, then `size` bytes of message data (tag, one
\* coded byte, the timestamp, zero fill).  `declared` is the length written in
\* the prefix, which a malformed capture may get wrong.
WireBlock(declared, size, tag, code, ts) ==
  LE16(declared) \o
    SubSeq(<<tag, code>> \o ts \o Rep(0, 80), 1, size)

\* The message data of the one block of the packet "probe": the input of
\* the runs that hand one block of chosen content to the decoder.
VARIABLE probe

\* The packets captures are built from.  Each has a name; Payload gives the
\* bytes of its payload layer.
PacketKinds ==
  { "hb", "one", "two", "unk", "badts", "v2", "hbv2", "nolayer", "short" }

\* Packets whose blocks break the framing: a length prefix of zero, a length
\* prefix that runs past the payload, a block shorter than the fields of its
\* variant, and a packet with bytes after the payload_len of its header.
FaultKinds == { "zero", "long", "trunc", "trail" }

HasPayloadLayer(k) == k # "nolayer"

P_hb == WireHeader(1, 0, 0, 9)
P_one == WireHeader(1, 12, 1, 2) \o WireBlock(10, 10, 83, 79, TsGood)
P_two == WireHeader(1, 32, 2, 7) \o WireBlock(10, 10, 83, 83, TsGood)
           \o WireBlock(18, 18, 69, 67, TsGood)
P_unk == WireHeader(1, 36, 3, 5) \o WireBlock(10, 10, 255, 1, TsGood)
           \o WireBlock(10, 10, 83, 82, TsGood)
           \o WireBlock(10, 10, 0, 1, TsGood)
P_badts == WireHeader(1, 12, 1, 4) \o WireBlock(10, 10, 83, 77, TsBad)
P_v2 == WireHeader(2, 12, 1, 3) \o WireBlock(10, 10, 83, 69, TsGood)
P_hbv2 == WireHeader(2, 0, 0, 6)
P_short == SubSeq(WireHeader(1, 12, 1, 8), 1, 12)
P_zero == WireHeader(1, 12, 1, 11) \o WireBlock(0, 10, 83, 69, TsGood)
P_long == WireHeader(1, 12, 1, 12) \o WireBlock(30, 10, 83, 82, TsGood)
P_trunc == WireHeader(1, 12, 1, 13) \o WireBlock(10, 10, 81, 0, TsGood)
P_probe == WireHeader(1, Len(probe) + 2, 1, 15) \o LE16(Len(probe)) \o probe
P_trail == WireHeader(1, 12, 1, 14) \o WireBlock(10, 10, 83, 77, TsGood)
             \o WireBlock(10, 10, 83, 69, TsGood)

Payload(k) ==
  CASE k = "hb" -> P_hb
    [] k = "one" -> P_one
    [] k = "two" -> P_two
    [] k = "unk" -> P_unk
    [] k = "badts" -> P_badts
    [] k = "v2" -> P_v2
    [] k = "hbv2" -> P_hbv2
    [] k = "short" -> P_short
    [] k = "zero" -> P_zero
    [] k = "long" -> P_long
    [] k = "trunc" -> P_trunc
    [] k = "trail" -> P_trail
    [] k = "probe" -> P_probe
    [] OTHER -> <<>>

RECURSIVE SeqsUpTo(_, _)
SeqsUpTo(S, n) ==
  IF n = 0 THEN {<<>>}
  ELSE LET R == SeqsUpTo(S, n - 1)
       IN R \cup {Append(s, x) : s \in {r \in R : Len(r) = n - 1}, x \in S}

\* The packets that follow the wire format; a capture of the model holds at
\* most one packet that does not.
WellFormedKinds == {"hb", "one", "two"}

Captures ==
  { c \in SeqsUpTo(PacketKinds, MaxPackets) :
      Cardinality({i \in 1..Len(c) : c[i] \notin WellFormedKinds}) <= 1 }

\* Captures with at most MaxFaultPackets packets, drawn from heartbeats,
\* one-block segments and the packets with a framing fault.
FaultCaptures ==
  SeqsUpTo({"hb", "one"} \cup FaultKinds, MaxFaultPackets) \ {<<>>}

\* Message data: the tag, the coded byte, the timestamp and 70 more bytes
\* (offsets 10..79, enough for the longest variant).
MessageData(tag, code, ts, body) == <<tag, code>> \o ts \o body

\* Three fillings of offsets 10..79.  The first 8 bytes are the symbol.
\* BodyLow: "ABCDEFGH", then at offset i the byte i + 1, so that every field
\* is positive and no two offsets hold the same byte.
BodyLow == [i \in 1..70 |-> IF i <= 8 THEN 64 + i ELSE i + 10]
\* BodyHigh: "IEX" padded with spaces, then at offset i the byte 255 - i.
BodyHigh ==
  [i \in 1..70 |-> IF i <= 8 THEN <<73, 69, 88, 32, 32, 32, 32, 32>>[i]
                   ELSE 246 - i]
\* BodyMax: "ZVZZT" followed by space, tab and CR, then 0xFF everywhere.
BodyMax ==
  [i \in 1..70 |-> IF i <= 8 THEN <<90, 86, 90, 90, 84, 32, 9, 13>>[i]
                   ELSE 255]

\* Timestamps at and around the two limits of ValidateTimestamp, at the ends
\* of the unsigned and of the signed range, and two that compare differently
\* when the bytes are read in the wrong order.
ProbeTimestamps ==
  { TsGood, TsBad,
    <<255, 255, 108, 125, 55, 49, 48, 19>>,
    <<0, 0, 109, 125, 55, 49, 48, 19>>,
    <<1, 0, 109, 125, 55, 49, 48, 19>>,
    <<255, 255, 165, 86, 207, 207, 238, 56>>,
    <<0, 0, 166, 86, 207, 207, 238, 56>>,
    <<1, 0, 166, 86, 207, 207, 238, 56>>,
    <<255, 255, 255, 255, 255, 255, 47, 19>>,
    <<0, 0, 0, 0, 0, 0, 239, 56>>,
    <<255, 255, 255, 255, 255, 255, 255, 127>>,
    <<0, 0, 0, 0, 0, 0, 0, 128>>,
    <<145, 8, 240, 77, 58, 172, 13, 149>>,
    Rep(255, 8) }

\* Eight-byte symbol fields: padded with spaces, full width, with leading
\* and with inner whitespace, all whitespace, ending in each of the six
\* characters std::isspace knows, padded with NUL, and ending in a byte
\* above 127.
ProbeSymbols ==
  { <<65, 66, 32, 32, 32, 32, 32, 32>>,
    <<65, 66, 67, 68, 69, 70, 71, 72>>,
    <<32, 9, 65, 66, 32, 32, 32, 32>>,
    <<65, 32, 66, 9, 67, 13, 10, 32>>,
    <<32, 32, 32, 32, 32, 32, 32, 32>>,
    <<32, 9, 13, 10, 32, 9, 13, 10>>,
    <<65, 66, 11, 32, 32, 32, 32, 32>>,
    <<65, 66, 12, 12, 12, 12, 12, 12>>,
    <<11, 32, 32, 32, 32, 32, 32, 32>>,
    <<65, 66, 0, 0, 0, 0, 0, 0>>,
    <<65, 66, 32, 32, 32, 32, 32, 200>> }

\* Four-byte reason fields, in the same way.
ProbeReasons ==
  { <<84, 49, 32, 32>>, <<72, 65, 76, 84>>, <<32, 84, 49, 32>>,
    <<32, 9, 13, 10>>, <<78, 65, 12, 32>>, <<78, 65, 32, 11>> }

\* Prices as the eight bytes of the wire: 0, 1, 9.99 and -9.99 dollars, -1,
\* 2^53 - 1, 2^53, 2^53 + 1, 2^53 + 3, -(2^53 + 1), 2^62 + 2^9 + 1,
\* 2^63 - 1 and -2^63.
ProbePrices ==
  { Rep(0, 8),
    <<1, 0, 0, 0, 0, 0, 0, 0>>,
    <<60, 134, 1, 0, 0, 0, 0, 0>>,
    <<196, 121, 254, 255, 255, 255, 255, 255>>,
    Rep(255, 8),
    <<255, 255, 255, 255, 255, 255, 31, 0>>,
    <<0, 0, 0, 0, 0, 0, 32, 0>>,
    <<1, 0, 0, 0, 0, 0, 32, 0>>,
    <<3, 0, 0, 0, 0, 0, 32, 0>>,
    <<255, 255, 255, 255, 255, 255, 223, 255>>,
    <<1, 2, 0, 0, 0, 0, 0, 64>>,
    <<255, 255, 255, 255, 255, 255, 255, 127>>,
    <<0, 0, 0, 0, 0, 0, 0, 128>> }

\* The blocks handed to the decoder: every tag byte, every coded byte, the
\* three fillings for every variant, the timestamps above, the text fields
\* above in a Trading Status message and the prices above in an Official
\* Price message.
ProbeBlocks ==
  {MessageData(t, 67, TsGood, BodyLow) : t \in 0..255}
    \cup {MessageData(83, c, TsGood, BodyLow) : c \in 0..255}
    \cup {MessageData(t, c, TsGood, b) :
            t \in {83, 68, 69, 72, 79, 80, 81, 84, 88, 66, 65, 56, 53},
            c \in {0, 128, 255}, b \in {BodyLow, BodyHigh, BodyMax}}
    \cup {MessageData(t, 67, ts, BodyLow) : t \in {83, 84}, ts \in ProbeTimestamps}
    \cup {MessageData(72, 72, TsGood, sym \o rsn) :
            sym \in ProbeSymbols, rsn \in ProbeReasons}
    \cup {MessageData(88, 81, TsGood, <<73, 69, 88, 32, 32, 32, 32, 32>> \o n) :
            n \in ProbePrices}

\* What a file name leads to: a capture, a file that cannot be opened, or a
\* name for which no reader can be determined.
Missing == "Missing"
NoReader == "NoReader"

\* Bytes an out-of-bounds read may produce.
GarbageBytes == {0, 53}

\* ------------------------------------------------- iex_messages.cpp/.h
\* The byte at offset i of the memory `data`; outside it, the garbage byte g.
ByteAt(data, i, g) == IF i >= 0 /\ i < Len(data) THEN data[i + 1] ELSE g

\* GetNumeric<uint8_t>, GetNumeric<uint16_t>
GetNumeric8(data, offset, g) == ByteAt(data, offset, g)

GetNumeric16(data, offset, g) ==
  ByteAt(data, offset, g) + 256 * ByteAt(data, offset + 1, g)

\* GetNumeric<uint32_t> and GetNumeric<uint64_t>: the little-endian bytes.
GetNumericWide(data, offset, width, g) ==
  [k \in 1..width |-> ByteAt(data, offset + k - 1, g)]

\* a < b for two little-endian byte tuples of the same width, as unsigned
\* numbers.
LessLE(a, b) ==
  \E i \in 1..Len(a) :
    /\ a[i] < b[i]
    /\ \A j \in (i + 1)..Len(a) : a[j] = b[j]

\* 1382659200000000000 and 4102444800000000000 as little-endian bytes.
TimestampLowerLimit == <<0, 0, 109, 125, 55, 49, 48, 19>>
TimestampUpperLimit == <<0, 0, 166, 86, 207, 207, 238, 56>>

\* ValidateTimestamp(const int64_t): the uint64_t member is converted to
\* int64_t, so a set top bit makes it negative and fails the lower limit.
ValidateTimestamp(timestamp) ==
  /\ timestamp[8] < 128
  /\ LessLE(TimestampLowerLimit, timestamp)
  /\ LessLE(timestamp, TimestampUpperLimit)

\* IEXTPHeader members before any Decode: indeterminate.
HeaderUninit ==
  [ version |-> -1, protocol_id |-> -1, channel_id |-> <<>>,
    session_id |-> <<>>, payload_len |-> -1, message_count |-> -1,
    stream_offset |-> <<>>, first_msg_sq_num |-> <<>>, send_time |-> <<>> ]

\* IEXTPHeader::Decode: every field is stored, then the version is tested.
IEXTPHeaderDecode(data, g) ==
  LET h == [ version |-> GetNumeric8(data, 0, g),
             protocol_id |-> GetNumeric16(data, 2, g),
             channel_id |-> GetNumericWide(data, 4, 4, g),
             session_id |-> GetNumericWide(data, 8, 4, g),
             payload_len |-> GetNumeric16(data, 12, g),
             message_count |-> GetNumeric16(data, 14, g),
             stream_offset |-> GetNumericWide(data, 16, 8, g),
             first_msg_sq_num |-> GetNumericWide(data, 24, 8, g),
             send_time |-> GetNumericWide(data, 32, 8, g) ]
  IN [ok |-> (h.version = 1), header |-> h]

\* enum class MessageType: the tags that name an application message.
MessageTypes == {83, 68, 69, 72, 79, 80, 81, 84, 88, 66, 65, 56, 53}

\* IEXMessageFactory: the class constructed for a tag, NULL for any other.
IEXMessageFactory(tag) ==
  CASE tag = 81 -> "QuoteUpdateMessage"
    [] tag = 72 -> "TradingStatusMessage"
    [] tag = 83 -> "SystemEventMessage"
    [] tag = 68 -> "SecurityDirectoryMessage"
    [] tag = 79 -> "OperationalHaltStatusMessage"
    [] tag = 80 -> "ShortSalePriceTestStatusMessage"
    [] tag \in {84, 66} -> "TradeReportMessage"
    [] tag = 88 -> "OfficialPriceMessage"
    [] tag = 65 -> "AuctionInformationMessage"
    [] tag \in {56, 53} -> "PriceLevelUpdateMessage"
    [] tag = 69 -> "SecurityEventMessage"
    [] OTHER -> NULL

\* The number of bytes of message data a variant's Decode reads (the end of
\* its last field).
DecodeExtent(variant) ==
  CASE variant = "SystemEventMessage" -> 10
    [] variant = "SecurityDirectoryMessage" -> 31
    [] variant = "TradingStatusMessage" -> 22
    [] variant = "OperationalHaltStatusMessage" -> 18
    [] variant = "ShortSalePriceTestStatusMessage" -> 19
    [] variant = "QuoteUpdateMessage" -> 42
    [] variant = "TradeReportMessage" -> 38
    [] variant = "OfficialPriceMessage" -> 26
    [] variant = "AuctionInformationMessage" -> 80
    [] variant = "PriceLevelUpdateMessage" -> 30
    [] variant = "SecurityEventMessage" -> 18
    [] OTHER -> 0

\* The message_type a constructor stores: its own constant, or for the
\* three classes with a msg_type parameter the tag the factory passes.
ConstructedType_DefaultArgument(variant, tag) ==
  CASE variant = "QuoteUpdateMessage" -> 81
    [] variant = "TradingStatusMessage" -> 72
    [] variant = "SystemEventMessage" -> 83
    [] variant = "SecurityDirectoryMessage" -> 68
    [] variant = "OperationalHaltStatusMessage" -> 79
    [] variant = "ShortSalePriceTestStatusMessage" -> 80
    [] variant = "TradeReportMessage" -> 84
    [] variant = "OfficialPriceMessage" -> 88
    [] variant = "AuctionInformationMessage" -> 65
    [] OTHER -> tag

ConstructedType(variant, tag) ==
  CASE variant = "QuoteUpdateMessage" -> 81
    [] variant = "TradingStatusMessage" -> 72
    [] variant = "SystemEventMessage" -> 83
    [] variant = "SecurityDirectoryMessage" -> 68
    [] variant = "OperationalHaltStatusMessage" -> 79
    [] variant = "ShortSalePriceTestStatusMessage" -> 80
    [] variant = "OfficialPriceMessage" -> 88
    [] variant = "AuctionInformationMessage" -> 65
    [] OTHER -> tag

\* The value of an `int` member assigned from GetNumeric<uint32_t> or
\* GetNumeric<uint64_t>: the low 32 bits of the wire value, as a signed
\* number.
ToInt(bytes) ==
  bytes[1] + 256 * bytes[2] + 65536 * bytes[3]
    + 16777216 * (IF bytes[4] >= 128 THEN bytes[4] - 256 ELSE bytes[4])

GetInt32(data, offset, g) == ToInt(GetNumericWide(data, offset, 4, g))

GetInt64(data, offset, g) == ToInt(GetNumericWide(data, offset, 8, g))

\* The bits of a little-endian number, lowest first.
BitsOf(bytes) ==
  [i \in 1..(8 * Len(bytes)) |->
     (bytes[((i - 1) \div 8) + 1] \div 2 ^ ((i - 1) % 8)) % 2]

\* The little-endian bytes of a sequence of bits.
BytesOf(bits) ==
  [k \in 1..(Len(bits) \div 8) |->
     bits[8 * k - 7] + 2 * bits[8 * k - 6] + 4 * bits[8 * k - 5]
       + 8 * bits[8 * k - 4] + 16 * bits[8 * k - 3] + 32 * bits[8 * k - 2]
       + 64 * bits[8 * k - 1] + 128 * bits[8 * k]]

\* The highest and the lowest set bit of a sequence of bits; 0 if none.
HighBit(bits) ==
  IF \A i \in 1..Len(bits) : bits[i] = 0 THEN 0
  ELSE CHOOSE i \in 1..Len(bits) :
         bits[i] = 1 /\ \A j \in (i + 1)..Len(bits) : bits[j] = 0

LowBit(bits) ==
  IF \A i \in 1..Len(bits) : bits[i] = 0 THEN 0
  ELSE CHOOSE i \in 1..Len(bits) :
         bits[i] = 1 /\ \A j \in 1..(i - 1) : bits[j] = 0

\* An int64_t as sign and magnitude; the magnitude in nine bytes, for 2^63.
Int64Value(bytes) ==
  LET b == BitsOf(bytes \o <<0>>)
      neg == bytes[8] >= 128
      low == LowBit(b)
      mag == [i \in 1..72 |->
                IF ~neg THEN b[i]
                ELSE IF i > 64 THEN 0
                ELSE IF i <= low THEN b[i] ELSE 1 - b[i]]
  IN [negative |-> neg, magnitude |-> BytesOf(mag)]

\* The number of bits of a double's significand.
DoubleDigits == 53

\* The double nearest to the number of sign v.negative and magnitude
\* v.magnitude: a magnitude of more than DoubleDigits bits is rounded to the
\* nearest number of DoubleDigits bits, a tie to the even one.
ToDouble(v) ==
  LET m == BitsOf(v.magnitude)
      high == HighBit(m)
      drop == high - DoubleDigits
      up == /\ m[drop] = 1
            /\ \/ \E j \in 1..(drop - 1) : m[j] = 1
               \/ m[drop + 1] = 1
      \* the lowest clear bit from drop + 1 on, where the carry ends
      stop == CHOOSE i \in (drop + 1)..72 :
                m[i] = 0 /\ \A j \in (drop + 1)..(i - 1) : m[j] = 1
      rounded == [i \in 1..72 |->
                    IF i <= drop THEN 0
                    ELSE IF ~up THEN m[i]
                    ELSE IF i < stop THEN 0
                    ELSE IF i = stop THEN 1
                    ELSE m[i]]
  IN IF high <= DoubleDigits THEN v
     ELSE [negative |-> v.negative, magnitude |-> BytesOf(rounded)]

\* GetPrice: the int64_t at the offset, converted to double and divided by
\* 10000.0. The quotient is kept as the double dividend over the divisor.
GetPrice(data, offset, g) ==
  [ dividend |-> ToDouble(Int64Value(GetNumericWide(data, offset, 8, g))),
    divisor |-> 10000 ]

\* std::isspace of a char: for a byte above 127 the argument is negative and
\* the result is not defined; g decides it.
IsSpace(ch, g) == IF ch < 128 THEN ch \in {9, 10, 11, 12, 13, 32} ELSE g # 0

RECURSIVE StripTrailing(_, _)
StripTrailing(str, g) ==
  IF str = <<>> THEN str
  ELSE IF IsSpace(str[Len(str)], g)
       THEN StripTrailing(SubSeq(str, 1, Len(str) - 1), g)
       ELSE str

\* GetString: `length` chars from the offset, trailing whitespace erased.
GetString(data, offset, length, g) ==
  StripTrailing([k \in 1..length |-> ByteAt(data, offset + k - 1, g)], g)

\* What each <Variant>::Decode stores in the members of its class besides
\* the timestamp, from the message data at offset `at` of `data`.
DecodeFields(variant, data, at, g) ==
  CASE variant = "SystemEventMessage" ->
         [ system_event |-> GetNumeric8(data, at + 1, g) ]
    [] variant = "SecurityDirectoryMessage" ->
         [ flags |-> GetNumeric8(data, at + 1, g),
           symbol |-> GetString(data, at + 10, 8, g),
           round_lot_size |-> GetInt32(data, at + 18, g),
           adjusted_POC_price |-> GetPrice(data, at + 22, g),
           LULD_tier |-> GetNumeric8(data, at + 30, g) ]
    [] variant = "TradingStatusMessage" ->
         [ trading_status |-> GetNumeric8(data, at + 1, g),
           symbol |-> GetString(data, at + 10, 8, g),
           reason |-> GetString(data, at + 18, 4, g) ]
    [] variant = "OperationalHaltStatusMessage" ->
         [ operational_halt_status |-> GetNumeric8(data, at + 1, g),
           symbol |-> GetString(data, at + 10, 8, g) ]
    [] variant = "ShortSalePriceTestStatusMessage" ->
         [ short_sale_test_in_effect |-> (GetNumeric8(data, at + 1, g) # 0),
           symbol |-> GetString(data, at + 10, 8, g),
           detail |-> GetNumeric8(data, at + 18, g) ]
    [] variant = "QuoteUpdateMessage" ->
         [ flags |-> GetNumeric8(data, at + 1, g),
           symbol |-> GetString(data, at + 10, 8, g),
           bid_size |-> GetInt32(data, at + 18, g),
           bid_price |-> GetPrice(data, at + 22, g),
           ask_size |-> GetInt32(data, at + 38, g),
           ask_price |-> GetPrice(data, at + 30, g) ]
    [] variant = "TradeReportMessage" ->
         [ flags |-> GetNumeric8(data, at + 1, g),
           symbol |-> GetString(data, at + 10, 8, g),
           size |-> GetInt32(data, at + 18, g),
           price |-> GetPrice(data, at + 22, g),
           trade_id |-> GetInt64(data, at + 30, g) ]
    [] variant = "OfficialPriceMessage" ->
         [ price_type |-> GetNumeric8(data, at + 1, g),
           symbol |-> GetString(data, at + 10, 8, g),
           price |-> GetPrice(data, at + 18, g) ]
    [] variant = "AuctionInformationMessage" ->
         [ auction_type |-> GetNumeric8(data, at + 1, g),
           symbol |-> GetString(data, at + 10, 8, g),
           paired_shares |-> GetInt32(data, at + 18, g),
           reference_price |-> GetPrice(data, at + 22, g),
           indicative_clearing_price |-> GetPrice(data, at + 30, g),
           imbalance_shares |-> GetInt32(data, at + 38, g),
           imbalance_side |-> GetNumeric8(data, at + 42, g),
           extension_number |-> GetNumeric8(data, at + 43, g),
           scheduled_auction_time |-> GetInt32(data, at + 44, g),
           auction_book_clearing_price |-> GetPrice(data, at + 48, g),
           collar_reference_price |-> GetPrice(data, at + 56, g),
           lower_auction_collar |-> GetPrice(data, at + 64, g),
           upper_auction_collar |-> GetPrice(data, at + 72, g) ]
    [] variant = "PriceLevelUpdateMessage" ->
         [ flags |-> GetNumeric8(data, at + 1, g),
           symbol |-> GetString(data, at + 10, 8, g),
           size |-> GetInt32(data, at + 18, g),
           price |-> GetPrice(data, at + 22, g) ]
    [] variant = "SecurityEventMessage" ->
         [ security_event |-> GetNumeric8(data, at + 1, g),
           symbol |-> GetString(data, at + 10, 8, g) ]
    [] OTHER -> [none |-> TRUE]

\* <Variant>::Decode at message data offset `at` of `data`, on the object the
\* factory constructed: message_type from the constructor, the coded byte at
\* offset 1 and the timestamp at offset 2, which every variant reads, the
\* other members, and the result of ValidateTimestamp.  The object keeps
\* what was stored in it even when the result is false.
MessageDecode(variant, tag, data, at, g) ==
  LET ts == GetNumericWide(data, at + 2, 8, g)
  IN [ ok |-> ValidateTimestamp(ts),
       msg |-> [ variant |-> variant,
                 message_type |-> ConstructedType(variant, tag),
                 code |-> GetNumeric8(data, at + 1, g),
                 timestamp |-> ts,
                 fields |-> DecodeFields(variant, data, at, g) ] ]

\* An empty std::unique_ptr<IEXMessageBase>.
NullMsg ==
  [variant |-> NULL, message_type |-> -1, code |-> -1, timestamp |-> <<>>]

\* An empty reader_ptr_, and a default-constructed pcpp::Packet.
NullReader == [null |-> TRUE, file |-> "", open |-> FALSE, pos |-> 0]

NoPacket == [kind |-> "none", idx |-> 0]

\* History value: the operation read no block.
NoBlock == [read |-> FALSE, idx |-> 0, off |-> 0, len |-> 0, inbounds |-> TRUE]

\* ---------------------------------------------------------------- state
VARIABLES
  files,                 \* file name -> [status, packets]
  reader_ptr_,           \* [null, file, open, pos]: pos packets were read
  parsed_packet_,        \* [kind, idx]: the packet the decoder holds
  packet_ptr_,           \* NULL, "valid" (points to the payload of
                         \* parsed_packet_), "dangling" or "indeterminate"
  block_offset_,
  packet_len_,
  first_header_,
  last_decoded_header_,
  msg_ptr,               \* the caller's unique_ptr, passed to every call
  ret,                   \* history: the last operation and what it returned
  pulled,                \* history: indices of the packets it pulled
  rd,                    \* history: the block it read, NoBlock if none
  ncalls,                \* history: GetNextMessage calls since the last open
  nsucc,                 \* history: those that returned Success
  opened,                \* history: the last open returned true
  opens_left,            \* OpenFileForDecoding calls the run may still make
  sources                \* history: [open, closed], the numbers of reader
                         \* devices that are open and that were closed

vars == << files, reader_ptr_, parsed_packet_, packet_ptr_, block_offset_,
           packet_len_, first_header_, last_decoded_header_, msg_ptr, ret,
           pulled, rd, ncalls, nsucc, opened, opens_left, sources,
           probe >>

\* The members of the decoder as one record, with the packets pulled so far
\* in the running operation.
Decoder ==
  [ reader_ptr_ |-> reader_ptr_,
    parsed_packet_ |-> parsed_packet_,
    packet_ptr_ |-> packet_ptr_,
    block_offset_ |-> block_offset_,
    packet_len_ |-> packet_len_,
    first_header_ |-> first_header_,
    last_decoded_header_ |-> last_decoded_header_,
    pulled |-> <<>> ]

\* The names OpenFileForDecoding can be called with.
FileNames == DOMAIN files

\* The packets a reader can still deliver: none when open() failed.
ReaderCapture(r) == IF r.open THEN files[r.file].packets ELSE <<>>

\* The memory packet_ptr_ points to.  A dangling or indeterminate pointer
\* points to no byte of a payload: every read through it is garbage.
Memory(d) ==
  IF d.packet_ptr_ = "valid" THEN Payload(d.parsed_packet_.kind) ELSE <<>>

\* reader_ptr_->getNextPacket(raw_packet) returns false: no packet is left.
SourceExhausted_Early(r) == r.pos + 1 >= Len(ReaderCapture(r))

SourceExhausted(r) == r.pos >= Len(ReaderCapture(r))

\* ParseNextPacket's `block_offset_ = first_block_start` for a new packet.
SegmentStart_Keep(off) == off

SegmentStart(off) == first_block_start

\* IEXDecoder::ParseNextPacket(header), header being the member `target`.
ParseNextPacket(d, target, g) ==
  IF d.reader_ptr_.null
  THEN [code |-> "ClassNotInitialized", d |-> d]
  ELSE
    LET r == d.reader_ptr_
        cap == ReaderCapture(r)
    IN IF SourceExhausted(r)
       THEN [code |-> "EndOfStream", d |-> d]
       ELSE
         LET kind == cap[r.pos + 1]
             d1 == [d EXCEPT !.reader_ptr_.pos = r.pos + 1,
                             !.parsed_packet_ = [kind |-> kind, idx |-> r.pos + 1],
                             !.pulled = Append(@, r.pos + 1),
                             \* the payload the pointer referred to is freed
                             !.packet_ptr_ = IF @ = "valid" THEN "dangling" ELSE @]
         IN IF ~HasPayloadLayer(kind)
            THEN [code |-> "FailedParsingPacket", d |-> d1]
            ELSE
              LET data == Payload(kind)
                  h == IEXTPHeaderDecode(data, g)
                  d2 == [d1 EXCEPT !.packet_ptr_ = "valid",
                                   !.packet_len_ = Len(data),
                                   !.block_offset_ = SegmentStart(@),
                                   ![target] = h.header]
              IN [code |-> IF h.ok THEN "Success" ELSE "FailedDecodingPacket",
                  d |-> d2]

\* OpenFileForDecoding's test that the first packet only contains the header.
FirstPacketHeaderOnly_Strict(len) == len < first_block_start

FirstPacketHeaderOnly_Always(len) == TRUE

FirstPacketHeaderOnly(len) == len <= first_block_start

\* reader_ptr_->close() on the device r: an open device is closed.
CloseDevice(s, r) ==
  IF r.open THEN [open |-> s.open - 1, closed |-> s.closed + 1] ELSE s

\* delete of the device r: the destructor of a pcpp file device closes it.
DeleteDevice(s, r) == CloseDevice(s, r)

\* reader_ptr_.reset(p) deletes the reader the decoder held, if any.
ResetDeletes_Release(r) == FALSE

ResetDeletes(r) == ~r.null

ReleaseReader(s, r) == IF ResetDeletes(r) THEN DeleteDevice(s, r) ELSE s

\* reader_ptr_->open() succeeded on a new device.
OpenDevice(s) == [s EXCEPT !.open = @ + 1]

\* IEXDecoder::OpenFileForDecoding(filename)
OpenResult(d, filename, g) ==
  IF files[filename].status = NoReader
  THEN [ok |-> FALSE, d |-> [d EXCEPT !.reader_ptr_ = NullReader]]
  ELSE IF files[filename].status = Missing
  THEN [ok |-> FALSE,
        d |-> [d EXCEPT !.reader_ptr_ =
                 [null |-> FALSE, file |-> filename, open |-> FALSE, pos |-> 0]]]
  ELSE
    LET d0 == [d EXCEPT !.reader_ptr_ =
                 [null |-> FALSE, file |-> filename, open |-> TRUE, pos |-> 0]]
        p == ParseNextPacket(d0, "first_header_", g)
    IN IF p.code # "Success"
       THEN [ok |-> FALSE, d |-> p.d]
       ELSE [ok |-> TRUE,
             d |-> IF FirstPacketHeaderOnly(p.d.packet_len_)
                   THEN [p.d EXCEPT !.packet_ptr_ = NULL]
                   ELSE p.d]

\* The header GetNextMessage passes to ParseNextPacket.
PullHeaderTarget_First == "first_header_"

PullHeaderTarget == "last_decoded_header_"

\* The do-while loop of GetNextMessage: pull packets into
\* last_decoded_header_ until one fails or has payload_len # 0.
RECURSIVE PullLoop(_, _)
PullLoop(d, g) ==
  LET p == ParseNextPacket(d, PullHeaderTarget, g)
  IN IF p.code # "Success" THEN p
     ELSE IF p.d.last_decoded_header_.payload_len = 0 THEN PullLoop(p.d, g)
     ELSE p

\* "Move the block offset to the next block": the two bytes of the size are
\* not counted in the block length.
NextBlockOffset_NoPrefix(off, block_len) == off + block_len

NextBlockOffset_Stuck(off, block_len) == off

NextBlockOffset(off, block_len) == off + block_len + 2

\* GetBlockSize: the uint16_t at the block pointer.
GetBlockSize(data, offset, g) == GetNumeric16(data, offset, g)

\* The rest of GetNextMessage, from "Get a pointer to the current block".
ReadBlock(d, msg_in, g) ==
  LET data == Memory(d)
      off == d.block_offset_
      block_len == GetBlockSize(data, off, g)
      msg_data == off + 2
      new_off == NextBlockOffset(off, block_len)
      d1 == [d EXCEPT !.block_offset_ = new_off,
                      !.packet_ptr_ = IF new_off >= d.packet_len_ THEN NULL ELSE @]
      tag == ByteAt(data, msg_data, g)
      variant == IEXMessageFactory(tag)
      dec == MessageDecode(variant, tag, data, msg_data, g)
      extent == IF variant = NULL THEN 1 ELSE DecodeExtent(variant)
      block == [ read |-> TRUE,
                 idx |-> IF d.packet_ptr_ = "valid" THEN d.parsed_packet_.idx ELSE 0,
                 off |-> off,
                 len |-> block_len,
                 inbounds |-> msg_data + extent <= Len(data) ]
  IN IF variant = NULL
     THEN [code |-> "UnknownMessageType", d |-> d1, msg |-> NullMsg, rd |-> block]
     ELSE [code |-> IF dec.ok THEN "Success" ELSE "FailedDecodingPacket",
           d |-> d1, msg |-> dec.msg, rd |-> block]

\* GetNextMessage's and ParseNextPacket's test `!reader_ptr_`.
NotInitialized_Never(d) == FALSE

NotInitialized(d) == d.reader_ptr_.null

\* IEXDecoder::GetNextMessage(msg_ptr).  isnull is what the test of an
\* indeterminate packet_ptr_ yields.
NextResult(d, msg_in, g, isnull) ==
  IF NotInitialized(d)
  THEN [code |-> "ClassNotInitialized", d |-> d, msg |-> msg_in, rd |-> NoBlock]
  ELSE
    LET ptr_null == \/ d.packet_ptr_ = NULL
                    \/ d.packet_ptr_ = "indeterminate" /\ isnull
        p == IF ptr_null THEN PullLoop(d, g) ELSE [code |-> "Success", d |-> d]
    IN IF p.code # "Success"
       THEN [code |-> p.code, d |-> p.d, msg |-> msg_in, rd |-> NoBlock]
       ELSE ReadBlock(p.d, msg_in, g)

\* A message the caller may hold before the first call.
CallerMsg ==
  [variant |-> "SystemEventMessage", message_type |-> 83, code |-> 67,
   timestamp |-> TsGood, fields |-> [system_event |-> 67]]

\* The decoder after construction (IEXDecoder() = default): the headers and
\* packet_ptr_ have no initialiser.
InitMembers ==
  /\ reader_ptr_ = NullReader
  /\ parsed_packet_ = NoPacket
  /\ packet_ptr_ = "indeterminate"
  /\ block_offset_ = first_block_start
  /\ packet_len_ = 0
  /\ first_header_ = HeaderUninit
  /\ last_decoded_header_ = HeaderUninit
  /\ msg_ptr = CallerMsg
  /\ ret = [op |-> "none", code |-> "none"]
  /\ pulled = <<>>
  /\ rd = NoBlock
  /\ ncalls = 0
  /\ nsucc = 0
  /\ opened = FALSE
  /\ sources = [open |-> 0, closed |-> 0]

\* The files of a run: a.pcap holds the capture c, the two other names lead
\* to a file that cannot be opened and to no reader.
FilesWith(c) ==
  [f \in {"a.pcap", "bad_filename.notafile", "c.unknown"} |->
     CASE f = "a.pcap" -> [status |-> "ok", packets |-> c]
       [] f = "c.unknown" -> [status |-> NoReader, packets |-> <<>>]
       [] OTHER -> [status |-> Missing, packets |-> <<>>]]

Init ==
  /\ files \in {FilesWith(c) : c \in Captures}
  /\ probe = <<>>
  /\ opens_left = MaxOpens
  /\ InitMembers

\* The same decoder on the captures with framing faults.
InitFaults ==
  /\ files \in {FilesWith(c) : c \in FaultCaptures}
  /\ probe = <<>>
  /\ opens_left = MaxOpens
  /\ InitMembers

\* The same decoder on a capture of a heartbeat and one segment whose only
\* block is drawn from ProbeBlocks.
InitMessages ==
  /\ files = FilesWith(<<"hb", "probe">>)
  /\ probe \in ProbeBlocks
  /\ opens_left = MaxOpens
  /\ InitMembers

SetDecoder(d) ==
  /\ reader_ptr_' = d.reader_ptr_
  /\ parsed_packet_' = d.parsed_packet_
  /\ packet_ptr_' = d.packet_ptr_
  /\ block_offset_' = d.block_offset_
  /\ packet_len_' = d.packet_len_
  /\ first_header_' = d.first_header_
  /\ last_decoded_header_' = d.last_decoded_header_
  /\ pulled' = d.pulled

OpenFileForDecoding ==
  /\ opens_left > 0
  /\ \E filename \in FileNames, g \in GarbageBytes :
       LET r == OpenResult(Decoder, filename, g)
       IN /\ SetDecoder(r.d)
          /\ ret' = [op |-> "open", code |-> IF r.ok THEN "true" ELSE "false"]
          /\ opened' = r.ok
          /\ sources' = IF r.d.reader_ptr_.open
                         THEN OpenDevice(ReleaseReader(sources, reader_ptr_))
                         ELSE ReleaseReader(sources, reader_ptr_)
  /\ opens_left' = opens_left - 1
  /\ rd' = NoBlock
  /\ ncalls' = 0
  /\ nsucc' = 0
  /\ UNCHANGED << files, msg_ptr, probe >>

GetNextMessage ==
  /\ ncalls < MaxCalls
  /\ \E g \in GarbageBytes, isnull \in BOOLEAN :
       LET r == NextResult(Decoder, msg_ptr, g, isnull)
       IN /\ SetDecoder(r.d)
          /\ msg_ptr' = r.msg
          /\ rd' = r.rd
          /\ ret' = [op |-> "next", code |-> r.code]
          /\ nsucc' = IF r.code = "Success" THEN nsucc + 1 ELSE nsucc
  /\ ncalls' = ncalls + 1
  /\ UNCHANGED << files, opened, opens_left, sources, probe >>

Next == OpenFileForDecoding \/ GetNextMessage

Spec == Init /\ [][Next]_vars

SpecFaults == InitFaults /\ [][Next]_vars

SpecMessages == InitMessages /\ [][Next]_vars

\* IEXDecoder::~IEXDecoder: the reader, if any, is closed; then the members
\* are destroyed and reader_ptr_ deletes it.
Destroy ==
  /\ ret.op # "destroy"
  /\ LET closed == IF ~reader_ptr_.null
                   THEN [reader_ptr_ EXCEPT !.open = FALSE]
                   ELSE reader_ptr_
         s1 == IF ~reader_ptr_.null THEN CloseDevice(sources, reader_ptr_)
               ELSE sources
     IN /\ reader_ptr_' = closed
        /\ sources' = IF ~closed.null THEN DeleteDevice(s1, closed) ELSE s1
  /\ ret' = [op |-> "destroy", code |-> "none"]
  /\ UNCHANGED << files, parsed_packet_, packet_ptr_, block_offset_,
                  packet_len_, first_header_, last_decoded_header_, msg_ptr,
                  pulled, rd, ncalls, nsucc, opened, opens_left, probe >>

\* A decoder that is opened up to MaxReopens times and then destroyed, on
\* captures of heartbeats and one-block segments.  A second readable file,
\* b.pcap, holds a heartbeat and a segment of two other blocks.
LifetimeCaptures == SeqsUpTo({"hb", "one"}, MaxFaultPackets)

LifetimeFiles(c) ==
  [f \in {"a.pcap", "b.pcap", "bad_filename.notafile", "c.unknown"} |->
     IF f = "b.pcap" THEN [status |-> "ok", packets |-> <<"hb", "two">>]
     ELSE FilesWith(c)[f]]

InitLifetime ==
  /\ files \in {LifetimeFiles(c) : c \in LifetimeCaptures}
  /\ probe = <<>>
  /\ opens_left = MaxReopens
  /\ InitMembers

LiveOpenFileForDecoding == ret.op # "destroy" /\ OpenFileForDecoding

LiveGetNextMessage == ret.op # "destroy" /\ GetNextMessage

NextLifetime == LiveOpenFileForDecoding \/ LiveGetNextMessage \/ Destroy

SpecLifetime == InitLifetime /\ [][NextLifetime]_vars

\* ------------------------------------------------- the wire format (§3)
\* What a capture holds according to the wire format, read from its bytes
\* without the decoder: used to state what the decoder must return.
WireU16(data, off) == data[off + 1] + 256 * data[off + 2]

RECURSIVE WireBlocks(_, _)
WireBlocks(data, off) ==
  IF off + 2 > Len(data) THEN <<>>
  ELSE LET len == WireU16(data, off)
       IN <<[off |-> off, len |-> len]>> \o WireBlocks(data, off + 2 + len)

WireTag(data, b) == data[b.off + 3]
WireCode(data, b) == data[b.off + 4]
WireTimestamp(data, b) == SubSeq(data, b.off + 5, b.off + 12)

\* A segment that follows the wire format: version 1, payload_len bytes after
\* the header, blocks that fill the payload exactly, every tag known, every
\* block as long as its variant and stamped inside the timestamp window.
SegmentWellFormed(k) ==
  /\ HasPayloadLayer(k)
  /\ LET data == Payload(k)
     IN /\ Len(data) >= 40
        /\ data[1] = 1
        /\ WireU16(data, 12) = Len(data) - 40
        /\ LET B == WireBlocks(data, 40)
           IN \A i \in 1..Len(B) :
                /\ B[i].len >= 10
                /\ B[i].off + 2 + B[i].len <= Len(data)
                /\ WireTag(data, B[i]) \in MessageTypes
                /\ WireTimestamp(data, B[i]) = TsGood

CaptureWellFormed(c) == \A i \in 1..Len(c) : SegmentWellFormed(c[i])

HeaderOnlyPacket(k) == HasPayloadLayer(k) /\ Len(Payload(k)) = 40

\* The blocks of a capture in wire order: [idx, off, len].
RECURSIVE CaptureBlocksFrom(_, _)
CaptureBlocksFrom(c, i) ==
  IF i > Len(c) THEN <<>>
  ELSE LET B == IF HasPayloadLayer(c[i]) THEN WireBlocks(Payload(c[i]), 40) ELSE <<>>
       IN [j \in 1..Len(B) |-> [idx |-> i, off |-> B[j].off, len |-> B[j].len]]
            \o CaptureBlocksFrom(c, i + 1)

CaptureBlocks(c) == CaptureBlocksFrom(c, 1)

\* The capture behind the reader, and whether the message the caller holds is
\* the one the wire has in block b.
OpenCapture == ReaderCapture(reader_ptr_)

MsgIsBlock(m, c, b) ==
  LET data == Payload(c[b.idx])
  IN /\ m.message_type = WireTag(data, b)
     /\ m.code = WireCode(data, b)
     /\ m.timestamp = WireTimestamp(data, b)

\* The sequence number (low byte) in the wire header of packet i.
WireSqNum(c, i) == Payload(c[i])[25]

\* ---------------------------------------------------------------- claims

\* C1: after a successful open of a well-formed capture, the k-th message
\* returned by GetNextMessage is decoded from the k-th block of the capture
\* (packets in capture order, blocks by increasing offset), whatever the
\* sequence numbers of the segments are.
C1_WireOrder ==
  ( /\ opened
    /\ ret.op = "next"
    /\ ret.code = "Success"
    /\ CaptureWellFormed(OpenCapture)
    /\ nsucc <= Len(CaptureBlocks(OpenCapture)) )
  => LET b == CaptureBlocks(OpenCapture)[nsucc]
     IN /\ rd.read
        /\ rd.idx = b.idx
        /\ rd.off = b.off
        /\ MsgIsBlock(msg_ptr, OpenCapture, b)

\* A message was returned from a segment whose sequence number is lower than
\* that of an earlier segment with blocks.
C1_Witness ==
  /\ opened
  /\ ret.op = "next"
  /\ ret.code = "Success"
  /\ CaptureWellFormed(OpenCapture)
  /\ nsucc >= 3
  /\ rd.read
  /\ rd.idx >= 3
  /\ \E j \in 1..(rd.idx - 1) :
       /\ ~HeaderOnlyPacket(OpenCapture[j])
       /\ WireSqNum(OpenCapture, j) > WireSqNum(OpenCapture, rd.idx)

\* C2: on a well-formed capture with N blocks whose first packet is
\* header-only, the first N calls after open return Success and call N+1
\* returns EndOfStream.
C2_ExactCount ==
  ( /\ opened
    /\ ret.op = "next"
    /\ CaptureWellFormed(OpenCapture)
    /\ HeaderOnlyPacket(OpenCapture[1]) )
  => LET N == Len(CaptureBlocks(OpenCapture))
     IN /\ ncalls <= N => (ret.code = "Success" /\ nsucc = ncalls)
        /\ ncalls = N + 1 => (ret.code = "EndOfStream" /\ nsucc = N)

\* Call N+1 returned EndOfStream after N >= 2 messages, with a heartbeat
\* between the first packet and the segment that carries them.
C2_Witness ==
  /\ opened
  /\ ret.op = "next"
  /\ ret.code = "EndOfStream"
  /\ CaptureWellFormed(OpenCapture)
  /\ HeaderOnlyPacket(OpenCapture[1])
  /\ Len(CaptureBlocks(OpenCapture)) >= 2
  /\ \E i \in 2..(Len(OpenCapture) - 1) : HeaderOnlyPacket(OpenCapture[i])
  /\ ncalls = Len(CaptureBlocks(OpenCapture)) + 1
  /\ nsucc = Len(CaptureBlocks(OpenCapture))

\* C3: GetNextMessage on a decoder on which OpenFileForDecoding was never
\* called returns ClassNotInitialized, pulls no packet and leaves the
\* caller's message as it was.
C3_NotInitialized ==
  (opens_left = MaxOpens /\ ret.op = "next")
  => /\ ret.code = "ClassNotInitialized"
     /\ pulled = <<>>
     /\ rd = NoBlock
     /\ reader_ptr_ = NullReader
     /\ parsed_packet_ = NoPacket
     /\ msg_ptr = CallerMsg

\* GetNextMessage was called twice before any open.
C3_Witness ==
  /\ opens_left = MaxOpens
  /\ ret.op = "next"
  /\ ret.code = "ClassNotInitialized"
  /\ ncalls >= 2

\* The transport header of a payload of at least 40 bytes, field by field
\* from the table of the wire format.
WireHeaderRecord(data) ==
  [ version |-> data[1],
    protocol_id |-> WireU16(data, 2),
    channel_id |-> SubSeq(data, 5, 8),
    session_id |-> SubSeq(data, 9, 12),
    payload_len |-> WireU16(data, 12),
    message_count |-> WireU16(data, 14),
    stream_offset |-> SubSeq(data, 17, 24),
    first_msg_sq_num |-> SubSeq(data, 25, 32),
    send_time |-> SubSeq(data, 33, 40) ]

FullHeader(k) == HasPayloadLayer(k) /\ Len(Payload(k)) >= 40

\* A heartbeat: a segment whose header has payload_len = 0.
IsHeartbeat(k) == FullHeader(k) /\ WireU16(Payload(k), 12) = 0

\* A packet without a payload layer or with fewer than 40 bytes of payload.
MalformedPacket(k) == ~FullHeader(k)

BadVersion(k) == FullHeader(k) /\ Payload(k)[1] # 1

LastPulled == OpenCapture[pulled[Len(pulled)]]

\* C4: a segment with payload_len = 0 never yields a message; GetNextMessage
\* skips such segments inside one call (a call that pulled a version-1
\* heartbeat last can only have ended in EndOfStream) and stores each skipped
\* header, so that at EndOfStream last_decoded_header_ is the header of the
\* last packet of the capture.  Stated for a successfully opened capture
\* whose packets all follow the wire format, and for a last packet that is
\* not the one open consumed.
C4_HeartbeatSkipped ==
  (opened /\ ret.op = "next" /\ CaptureWellFormed(OpenCapture)) =>
    /\ (ret.code = "Success" /\ rd.idx > 0) => ~IsHeartbeat(parsed_packet_.kind)
    /\ (pulled # <<>> /\ IsHeartbeat(LastPulled) /\ ~BadVersion(LastPulled))
         => ret.code = "EndOfStream"
    /\ (ret.code = "EndOfStream" /\ Len(OpenCapture) >= 2)
       => last_decoded_header_ =
            WireHeaderRecord(Payload(OpenCapture[Len(OpenCapture)]))

\* C5: GetNextMessage returns EndOfStream only when it was entered with no
\* segment active and the source has no packet left, never with unread
\* blocks in the current segment and never after reading a block; and with
\* no segment active and the source exhausted, EndOfStream is what it
\* returns.
C5_EndOfStream ==
  [][ /\ (ret'.op = "next" /\ ret'.code = "EndOfStream")
         => /\ packet_ptr_ \in {NULL, "indeterminate"}
            /\ ~(packet_ptr_ = "valid" /\ block_offset_ < packet_len_)
            /\ reader_ptr_'.pos = Len(ReaderCapture(reader_ptr_'))
            /\ rd' = NoBlock
      /\ ( /\ ret'.op = "next"
           /\ ~reader_ptr_.null
           /\ packet_ptr_ = NULL
           /\ reader_ptr_.pos = Len(ReaderCapture(reader_ptr_)) )
         => ret'.code = "EndOfStream"
    ]_vars

\* EndOfStream was returned by a call that first skipped a heartbeat, after
\* at least two messages.
C5_Witness ==
  /\ opened
  /\ ret.op = "next"
  /\ ret.code = "EndOfStream"
  /\ nsucc >= 2
  /\ pulled # <<>>
  /\ IsHeartbeat(LastPulled)

\* C6: a successful open consumes exactly the first packet of the source and
\* stores its transport header (when the packet has the 40 bytes of one) in
\* first_header_; no GetNextMessage call changes first_header_.
C6_FirstHeader ==
  [][ /\ (ret'.op = "open" /\ ret'.code = "true")
         => /\ reader_ptr_'.pos = 1
            /\ pulled' = <<1>>
            /\ FullHeader(ReaderCapture(reader_ptr_')[1])
                 => first_header_' =
                      WireHeaderRecord(Payload(ReaderCapture(reader_ptr_')[1]))
      /\ ret'.op = "next" => first_header_' = first_header_
    ]_vars

\* After a successful open, a call pulled two packets (a heartbeat and a
\* segment) and returned a message: first_header_ is still the first header.
C6_Witness ==
  /\ opened
  /\ ret.op = "next"
  /\ ret.code = "Success"
  /\ Len(pulled) >= 2
  /\ first_header_ = WireHeaderRecord(Payload(OpenCapture[1]))
  /\ last_decoded_header_ # first_header_

\* C7: when the first packet carries blocks, the calls that follow open
\* return those blocks in order, and no later call reads a block of the
\* first packet again.
C7_FirstPacketBlocks ==
  ( /\ opened
    /\ ret.op = "next"
    /\ SegmentWellFormed(OpenCapture[1])
    /\ ~HeaderOnlyPacket(OpenCapture[1]) )
  => LET B == WireBlocks(Payload(OpenCapture[1]), 40)
     IN IF ncalls <= Len(B)
        THEN /\ ret.code = "Success"
             /\ rd.read
             /\ rd.idx = 1
             /\ rd.off = B[ncalls].off
             /\ MsgIsBlock(msg_ptr, OpenCapture,
                           [idx |-> 1, off |-> B[ncalls].off, len |-> B[ncalls].len])
        ELSE rd.read => rd.idx # 1

\* The second block of a first packet was returned, then the block of the
\* second packet.
C7_Witness ==
  /\ opened
  /\ ret.op = "next"
  /\ ret.code = "Success"
  /\ Len(WireBlocks(Payload(OpenCapture[1]), 40)) = 2
  /\ SegmentWellFormed(OpenCapture[1])
  /\ ncalls = 3
  /\ rd.idx = 2

\* C8: a call that returns UnknownMessageType has advanced the cursor past
\* the block by its declared length plus 2 and has ended the segment exactly
\* when the cursor reached the end of the packet; the next call reads the
\* following block of the same segment, or pulls the next packet (or meets
\* the end of the stream) when the unknown block was the last one.
C8_UnknownAdvances ==
  [][ /\ (ret'.op = "next" /\ ret'.code = "UnknownMessageType")
         => /\ rd'.read
            /\ block_offset_' = rd'.off + rd'.len + 2
            /\ (packet_ptr_' = NULL) = (block_offset_' >= packet_len_')
      /\ (ret.op = "next" /\ ret.code = "UnknownMessageType" /\ ret'.op = "next")
         => IF packet_ptr_ = NULL
            THEN pulled' # <<>> \/ ret'.code = "EndOfStream"
            ELSE /\ pulled' = <<>>
                 /\ rd'.read
                 /\ rd'.idx = rd.idx
                 /\ rd'.off = rd.off + rd.len + 2
    ]_vars

\* After the unknown tag in the first block of a segment, the second block
\* of the same segment was returned.
C8_Witness ==
  /\ opened
  /\ ret.op = "next"
  /\ ret.code = "Success"
  /\ rd.read
  /\ rd.inbounds
  /\ rd.idx > 0
  /\ rd.off = 52
  /\ WireTag(Payload(parsed_packet_.kind), [off |-> 40]) \notin MessageTypes

\* C9: a call that pulls a segment whose version is not 1 returns a failure,
\* and the call after it reads no block of that segment but pulls the next
\* packet (or meets the end of the stream).
C9_BadVersionSkipped ==
  [][ /\ (opened /\ ret'.op = "next" /\ pulled' # <<>> /\ BadVersion(LastPulled'))
         => ret'.code = "FailedDecodingPacket"
      /\ ( /\ opened
           /\ ret.op = "next"
           /\ pulled # <<>>
           /\ BadVersion(LastPulled)
           /\ ret'.op = "next" )
         => /\ pulled' # <<>> \/ ret'.code = "EndOfStream"
            /\ ~(rd'.read /\ rd'.idx = pulled[Len(pulled)])
    ]_vars

\* C10: a call that pulls a packet without payload, or with a payload
\* shorter than the 40-byte header, ends on that packet with
\* FailedParsingPacket, decodes no header from it and leaves no segment
\* active, so that the following call pulls the next packet.
C10_MalformedPacket ==
  [][ (opened /\ ret'.op = "next") =>
        \A j \in 1..Len(pulled') :
          MalformedPacket(OpenCapture'[pulled'[j]])
          => /\ j = Len(pulled')
             /\ ret'.code = "FailedParsingPacket"
             /\ packet_ptr_' = NULL
             /\ j = 1 => last_decoded_header_' = last_decoded_header_
    ]_vars

\* C11: after a successful open, every read of an operation lies inside the
\* payload of the packet it reads from: each pulled packet with a payload
\* layer has the 40 bytes IEXTPHeader::Decode reads, and the block a call
\* reads (length prefix, tag and every field of the variant selected by the
\* tag) ends inside the payload; a call that cannot read so reads no block.
C11_ReadsInBounds ==
  (opened /\ ret.op \in {"open", "next"}) =>
    /\ \A j \in 1..Len(pulled) :
         HasPayloadLayer(OpenCapture[pulled[j]])
         => Len(Payload(OpenCapture[pulled[j]])) >= 40
    /\ rd.read => rd.inbounds

\* The codes GetNextMessage has for input it cannot decode.
DecodeErrors == {"FailedParsingPacket", "FailedDecodingPacket"}

\* The last call read, inside the payload of the packet the decoder holds,
\* the block at rd.off.
ReadWireBlock ==
  /\ opened
  /\ ret.op = "next"
  /\ rd.read
  /\ rd.idx > 0
  /\ rd.inbounds
  /\ rd.len = WireU16(Payload(parsed_packet_.kind), rd.off)

\* C12: a call that reads a block whose length prefix is zero returns an
\* error for malformed input; it does not return the bytes after the prefix
\* as a message.
C12_ZeroLengthBlock ==
  (ReadWireBlock /\ rd.len = 0) => ret.code \in DecodeErrors

\* C13: a call that reads a block whose declared length runs past the end of
\* the segment payload (40 + payload_len of the segment's header) returns an
\* error, not a decoded message.
C13_TruncatedBlock ==
  ( /\ ReadWireBlock
    /\ rd.off + 2 + rd.len > 40 + WireU16(Payload(parsed_packet_.kind), 12) )
  => ret.code \in DecodeErrors

\* The payload the last call read its block from, and the tag and the
\* timestamp the wire has in that block.
ReadPayload == Payload(parsed_packet_.kind)

ReadTag == WireTag(ReadPayload, [off |-> rd.off])

ReadTimestamp == WireTimestamp(ReadPayload, [off |-> rd.off])

\* lower <= ts < upper for the two limits, as unsigned 64-bit numbers.
InWindow(ts) ==
  /\ ~LessLE(ts, TimestampLowerLimit)
  /\ LessLE(ts, TimestampUpperLimit)

\* C14: a block with a known tag is decoded with Success exactly when its
\* timestamp is in [1382659200000000000, 4102444800000000000), the lower
\* limit included and the upper one excluded.
C14_TimestampWindow ==
  (ReadWireBlock /\ ReadTag \in MessageTypes)
  => ((ret.code = "Success") <=> InWindow(ReadTimestamp))

\* C15: a call that reads a block with a known tag and a timestamp outside
\* the window returns FailedDecodingPacket and leaves no message in the
\* caller's msg_ptr.
C15_ImplausibleDiscarded ==
  (ReadWireBlock /\ ReadTag \in MessageTypes /\ ~InWindow(ReadTimestamp))
  => /\ ret.code = "FailedDecodingPacket"
     /\ msg_ptr = NullMsg

\* The variant the wire format names for each tag, and the class that
\* represents it.
WireVariant ==
  ( 83 :> "SystemEvent" @@ 68 :> "SecurityDirectory" @@ 69 :> "SecurityEvent"
    @@ 72 :> "TradingStatus" @@ 79 :> "OperationalHaltStatus"
    @@ 80 :> "ShortSalePriceTestStatus" @@ 81 :> "QuoteUpdate"
    @@ 84 :> "TradeReport" @@ 66 :> "TradeBreak" @@ 88 :> "OfficialPrice"
    @@ 65 :> "AuctionInformation" @@ 56 :> "PriceLevelUpdateBuy"
    @@ 53 :> "PriceLevelUpdateSell" )

ClassOf(name) ==
  CASE name \in {"TradeReport", "TradeBreak"} -> "TradeReportMessage"
    [] name \in {"PriceLevelUpdateBuy", "PriceLevelUpdateSell"} ->
         "PriceLevelUpdateMessage"
    [] name = "SystemEvent" -> "SystemEventMessage"
    [] name = "SecurityDirectory" -> "SecurityDirectoryMessage"
    [] name = "SecurityEvent" -> "SecurityEventMessage"
    [] name = "TradingStatus" -> "TradingStatusMessage"
    [] name = "OperationalHaltStatus" -> "OperationalHaltStatusMessage"
    [] name = "ShortSalePriceTestStatus" -> "ShortSalePriceTestStatusMessage"
    [] name = "QuoteUpdate" -> "QuoteUpdateMessage"
    [] name = "OfficialPrice" -> "OfficialPriceMessage"
    [] name = "AuctionInformation" -> "AuctionInformationMessage"

\* C16: for every tag byte, a call that reads a block with one of the 13
\* tags hands over an object of the class of that tag's variant whose
\* message type is the tag (so 0x54 and 0x42, and 0x38 and 0x35, stay
\* apart), and a call that reads a block with any other tag returns
\* UnknownMessageType and hands over no message.
C16_FactoryTotal ==
  ReadWireBlock =>
    IF ReadTag \in DOMAIN WireVariant
    THEN /\ ret.code # "UnknownMessageType"
         /\ msg_ptr.variant = ClassOf(WireVariant[ReadTag])
         /\ msg_ptr.message_type = ReadTag
    ELSE /\ ret.code = "UnknownMessageType"
         /\ msg_ptr = NullMsg

\* A TradeBreak block (0x42) was returned as a message of type 0x42.
C16_Witness ==
  /\ ReadWireBlock
  /\ ReadTag = 66
  /\ ret.code = "Success"
  /\ msg_ptr.variant = "TradeReportMessage"
  /\ msg_ptr.message_type = 66

\* C17: at most one packet source is open under a decoder at any time: an
\* open on a decoder that holds an open source closes it and leaves open
\* only the source of its own reader, and after the decoder is destroyed no
\* source is open.
C17_OneSourceOpen ==
  /\ sources.open <= 1
  /\ sources.open = (IF ~reader_ptr_.null /\ reader_ptr_.open THEN 1 ELSE 0)
  /\ ret.op = "destroy" => sources.open = 0

\* A second open succeeded on a decoder whose first source was open: the
\* first source is closed and the new one is open.
C17_Witness ==
  /\ ret.op = "open"
  /\ opened
  /\ opens_left = MaxReopens - 2
  /\ sources = [open |-> 1, closed |-> 1]

\* C18: after a call has read a block of a segment, the segment is marked
\* exhausted (packet_ptr_ is null, so that the next call pulls a packet)
\* exactly when the advanced cursor has reached 40 + payload_len, payload_len
\* being the value in the header of that segment; the call never reads a
\* block at or beyond 40 + payload_len.
C18_SegmentEnd ==
  ReadWireBlock =>
    LET segment_end == 40 + WireU16(ReadPayload, 12)
    IN /\ (packet_ptr_ = NULL) <=> (block_offset_ >= segment_end)
       /\ rd.off < segment_end

\* The message data of the block the last call read, and the bytes the wire
\* has at message offset `off`, `width` of them.
ReadMessageData == SubSeq(ReadPayload, rd.off + 3, Len(ReadPayload))

WireField(d, off, width) == SubSeq(d, off + 1, off + width)

\* The little-endian bytes of a number that is not negative.
RECURSIVE LEBytes(_, _)
LEBytes(v, width) ==
  IF width = 0 THEN <<>> ELSE <<v % 256>> \o LEBytes(v \div 256, width - 1)

\* The decoded integer v is the unsigned value of the wire bytes.
IsUnsigned(v, bytes) == v >= 0 /\ LEBytes(v, Len(bytes)) = bytes

\* A price is the signed 64-bit value of the wire bytes over 10^4.
IsPrice(p, bytes) == p.dividend = Int64Value(bytes) /\ p.divisor = 10000

\* A symbol of the wire, trailing space, tab, CR and LF stripped.
RECURSIVE WireSymbol(_)
WireSymbol(bytes) ==
  IF bytes # <<>> /\ bytes[Len(bytes)] \in {32, 9, 13, 10}
  THEN WireSymbol(SubSeq(bytes, 1, Len(bytes) - 1))
  ELSE bytes

\* The unsigned integer fields of the message f of class `variant` hold the
\* values the message data d has at the offsets of the wire format.
UnsignedFieldsMatch(variant, f, d) ==
  CASE variant = "SecurityDirectoryMessage" ->
         IsUnsigned(f.round_lot_size, WireField(d, 18, 4))
    [] variant = "QuoteUpdateMessage" ->
         /\ IsUnsigned(f.bid_size, WireField(d, 18, 4))
         /\ IsUnsigned(f.ask_size, WireField(d, 38, 4))
    [] variant = "TradeReportMessage" ->
         /\ IsUnsigned(f.size, WireField(d, 18, 4))
         /\ IsUnsigned(f.trade_id, WireField(d, 30, 8))
    [] variant = "AuctionInformationMessage" ->
         /\ IsUnsigned(f.paired_shares, WireField(d, 18, 4))
         /\ IsUnsigned(f.imbalance_shares, WireField(d, 38, 4))
         /\ IsUnsigned(f.scheduled_auction_time, WireField(d, 44, 4))
    [] variant = "PriceLevelUpdateMessage" ->
         IsUnsigned(f.size, WireField(d, 18, 4))
    [] OTHER -> TRUE

\* The other fields: coded bytes and flags raw, symbols stripped, prices.
OtherFieldsMatch(variant, f, d) ==
  CASE variant = "SystemEventMessage" -> f.system_event = d[2]
    [] variant = "SecurityDirectoryMessage" ->
         /\ f.flags = d[2]
         /\ f.symbol = WireSymbol(WireField(d, 10, 8))
         /\ IsPrice(f.adjusted_POC_price, WireField(d, 22, 8))
         /\ f.LULD_tier = d[31]
    [] variant = "SecurityEventMessage" ->
         /\ f.security_event = d[2]
         /\ f.symbol = WireSymbol(WireField(d, 10, 8))
    [] variant = "TradingStatusMessage" ->
         /\ f.trading_status = d[2]
         /\ f.symbol = WireSymbol(WireField(d, 10, 8))
         /\ f.reason = WireSymbol(WireField(d, 18, 4))
    [] variant = "OperationalHaltStatusMessage" ->
         /\ f.operational_halt_status = d[2]
         /\ f.symbol = WireSymbol(WireField(d, 10, 8))
    [] variant = "ShortSalePriceTestStatusMessage" ->
         /\ f.short_sale_test_in_effect = (d[2] # 0)
         /\ f.symbol = WireSymbol(WireField(d, 10, 8))
         /\ f.detail = d[19]
    [] variant = "QuoteUpdateMessage" ->
         /\ f.flags = d[2]
         /\ f.symbol = WireSymbol(WireField(d, 10, 8))
         /\ IsPrice(f.bid_price, WireField(d, 22, 8))
         /\ IsPrice(f.ask_price, WireField(d, 30, 8))
    [] variant = "TradeReportMessage" ->
         /\ f.flags = d[2]
         /\ f.symbol = WireSymbol(WireField(d, 10, 8))
         /\ IsPrice(f.price, WireField(d, 22, 8))
    [] variant = "OfficialPriceMessage" ->
         /\ f.price_type = d[2]
         /\ f.symbol = WireSymbol(WireField(d, 10, 8))
         /\ IsPrice(f.price, WireField(d, 18, 8))
    [] variant = "AuctionInformationMessage" ->
         /\ f.auction_type = d[2]
         /\ f.symbol = WireSymbol(WireField(d, 10, 8))
         /\ IsPrice(f.reference_price, WireField(d, 22, 8))
         /\ IsPrice(f.indicative_clearing_price, WireField(d, 30, 8))
         /\ f.imbalance_side = d[43]
         /\ f.extension_number = d[44]
         /\ IsPrice(f.auction_book_clearing_price, WireField(d, 48, 8))
         /\ IsPrice(f.collar_reference_price, WireField(d, 56, 8))
         /\ IsPrice(f.lower_auction_collar, WireField(d, 64, 8))
         /\ IsPrice(f.upper_auction_collar, WireField(d, 72, 8))
    [] variant = "PriceLevelUpdateMessage" ->
         /\ f.flags = d[2]
         /\ f.symbol = WireSymbol(WireField(d, 10, 8))
         /\ IsPrice(f.price, WireField(d, 22, 8))
    [] OTHER -> FALSE

\* A call returned the message of a block with a known tag.
ReturnedMessage ==
  /\ ReadWireBlock
  /\ ReadTag \in DOMAIN WireVariant
  /\ ret.code = "Success"

\* C19: every field of a returned message holds the value the block has at
\* the offset and width of the wire format's table (the integers as unsigned
\* little-endian numbers), every coded byte is the raw byte, and no value of
\* a coded byte makes the decode fail: a block with a known tag and a
\* timestamp inside the window is returned with Success.
C19_FieldsAtOffsets ==
  /\ (ReadWireBlock /\ ReadTag \in DOMAIN WireVariant /\ InWindow(ReadTimestamp))
     => ret.code = "Success"
  /\ ReturnedMessage =>
       /\ msg_ptr.timestamp = ReadTimestamp
       /\ OtherFieldsMatch(msg_ptr.variant, msg_ptr.fields, ReadMessageData)
       /\ UnsignedFieldsMatch(msg_ptr.variant, msg_ptr.fields, ReadMessageData)

\* C20: every unsigned integer field of a returned message holds the full
\* unsigned value of its wire bytes: trade_id the 64-bit value at offset 30,
\* the u32 fields the 32-bit value at their offset.
C20_UnsignedFull ==
  ReturnedMessage =>
    UnsignedFieldsMatch(msg_ptr.variant, msg_ptr.fields, ReadMessageData)

\* The text fields of the wire format: class, member, offset and width.
TextFields ==
  { <<"SecurityDirectoryMessage", "symbol", 10, 8>>,
    <<"SecurityEventMessage", "symbol", 10, 8>>,
    <<"TradingStatusMessage", "symbol", 10, 8>>,
    <<"TradingStatusMessage", "reason", 18, 4>>,
    <<"OperationalHaltStatusMessage", "symbol", 10, 8>>,
    <<"ShortSalePriceTestStatusMessage", "symbol", 10, 8>>,
    <<"QuoteUpdateMessage", "symbol", 10, 8>>,
    <<"TradeReportMessage", "symbol", 10, 8>>,
    <<"OfficialPriceMessage", "symbol", 10, 8>>,
    <<"AuctionInformationMessage", "symbol", 10, 8>>,
    <<"PriceLevelUpdateMessage", "symbol", 10, 8>> }

\* The member `name` of a returned message.
TextMember(f, name) == IF name = "symbol" THEN f.symbol ELSE f.reason

\* The decoded string is the field with its longest trailing run of space,
\* tab, CR and LF removed and nothing else: it is a prefix of the field that
\* does not end in one of the four, and everything after it is one of them.
StrippedOf(str, bytes) ==
  /\ Len(str) <= Len(bytes)
  /\ str = SubSeq(bytes, 1, Len(str))
  /\ \A k \in (Len(str) + 1)..Len(bytes) : bytes[k] \in {32, 9, 13, 10}
  /\ str # <<>> => str[Len(str)] \notin {32, 9, 13, 10}

\* C21: every text field of a returned message is the field's bytes with the
\* longest trailing run of space, tab, CR and LF removed and nothing else
\* removed; an all-whitespace field decodes to the empty string.
C21_TrailingWhitespace ==
  ReturnedMessage =>
    \A tf \in TextFields :
      msg_ptr.variant = tf[1] =>
        StrippedOf(TextMember(msg_ptr.fields, tf[2]),
                   WireField(ReadMessageData, tf[3], tf[4]))

\* ---------------------------------------------------------------------------
\* A variant's Decode called by hand: the caller constructs an object of one
\* of the message classes (their constructors and Decode are public) and
\* calls Decode once on message data of its own choosing. The decoder takes
\* no part; ret records what Decode returned, msg_ptr the object afterwards.

VariantClasses == {IEXMessageFactory(t) : t \in MessageTypes}

\* The tags for which the factory constructs the class.
ConstructorTags(variant) ==
  {t \in MessageTypes : IEXMessageFactory(t) = variant}

InitVariants ==
  /\ files = FilesWith(<<>>)
  /\ probe \in ProbeBlocks
  /\ opens_left = 0
  /\ InitMembers

VariantDecode ==
  /\ ret.op = "none"
  /\ \E variant \in VariantClasses, g \in GarbageBytes :
       \E tag \in ConstructorTags(variant) :
         LET r == MessageDecode(variant, tag, probe, 0, g)
         IN /\ msg_ptr' = r.msg
            /\ ret' = [op |-> "decode", code |-> IF r.ok THEN "true" ELSE "false"]
  /\ UNCHANGED << files, reader_ptr_, parsed_packet_, packet_ptr_,
                  block_offset_, packet_len_, first_header_,
                  last_decoded_header_, pulled, rd, ncalls, nsucc, opened,
                  opens_left, sources, probe >>

SpecVariants == InitVariants /\ [][VariantDecode]_vars

\* C22: a variant's Decode called on message data whose first byte is none
\* of the tags of that variant fails (Decode's only failure is to return
\* false) instead of producing a message of that variant.
C22_TagMismatch ==
  (ret.op = "decode" /\ probe[1] \notin ConstructorTags(msg_ptr.variant))
    => ret.code = "false"

\* The price fields of the wire format: class, member and offset.
PriceFields ==
  { <<"SecurityDirectoryMessage", "adjusted_POC_price", 22>>,
    <<"QuoteUpdateMessage", "bid_price", 22>>,
    <<"QuoteUpdateMessage", "ask_price", 30>>,
    <<"TradeReportMessage", "price", 22>>,
    <<"OfficialPriceMessage", "price", 18>>,
    <<"AuctionInformationMessage", "reference_price", 22>>,
    <<"AuctionInformationMessage", "indicative_clearing_price", 30>>,
    <<"AuctionInformationMessage", "auction_book_clearing_price", 48>>,
    <<"AuctionInformationMessage", "collar_reference_price", 56>>,
    <<"AuctionInformationMessage", "lower_auction_collar", 64>>,
    <<"AuctionInformationMessage", "upper_auction_collar", 72>>,
    <<"PriceLevelUpdateMessage", "price", 22>> }

\* A decoded price times 10,000, rounded to an integer: the product of the
\* quotient and its divisor is the dividend, which is an integer.
TimesTenThousand(p) == IF p.divisor = 10000 THEN p.dividend ELSE NULL

\* C23: for the signed 64-bit integer n a block has at a price offset, the
\* decoded price of the returned message, multiplied by 10,000 and rounded,
\* equals n.
C23_PricePrecision ==
  ReturnedMessage =>
    \A pf \in PriceFields :
      msg_ptr.variant = pf[1] =>
        TimesTenThousand(msg_ptr.fields[pf[2]])
          = Int64Value(WireField(ReadMessageData, pf[3], 8))

\* What is left of the source: the packets the reader has not delivered, and
\* the bytes of the current packet from the cursor on (one more than that
\* while packet_ptr_ is not null, nothing once it is null).
PacketsLeft(r) == Len(ReaderCapture(r)) - r.pos

BytesLeft(ptr, off, len) ==
  IF ptr = NULL THEN 0
  ELSE IF off < len THEN 1 + (len - off) ELSE 1

\* <<p1, b1>> is less than <<p2, b2>> in the order of packets, then bytes.
LessLeft(p1, b1, p2, b2) == p1 < p2 \/ (p1 = p2 /\ b1 < b2)

\* C24: every GetNextMessage call on an initialised decoder makes progress
\* on its finite source: a block read moves the cursor forward by at least
\* 2 bytes, every pull consumes one packet, a call that does not return
\* EndOfStream leaves strictly less of the source than it found, and a call
\* that finds nothing left returns EndOfStream.  What is left is never
\* negative, so a call terminates and repeated calls reach EndOfStream.
C24_Progress ==
  [][ (ncalls' = ncalls + 1 /\ ~reader_ptr_.null) =>
        /\ ret'.op = "next"
        /\ rd'.read => block_offset_' >= rd'.off + 2
        /\ reader_ptr_'.pos = reader_ptr_.pos + Len(pulled')
        /\ PacketsLeft(reader_ptr_') >= 0
        /\ \/ ret'.code = "EndOfStream"
           \/ LessLeft(PacketsLeft(reader_ptr_'),
                       BytesLeft(packet_ptr_', block_offset_', packet_len_'),
                       PacketsLeft(reader_ptr_),
                       BytesLeft(packet_ptr_, block_offset_, packet_len_))
        /\ ( /\ PacketsLeft(reader_ptr_) = 0
             /\ BytesLeft(packet_ptr_, block_offset_, packet_len_) = 0 )
           => ret'.code = "EndOfStream"
    ]_vars

\* EndOfStream after a capture with a zero-length or an over-long block has
\* been read to its end and has yielded a message.
C24_Witness ==
  /\ opened
  /\ ret.op = "next"
  /\ ret.code = "EndOfStream"
  /\ \E i \in 1..Len(OpenCapture) : OpenCapture[i] \in {"zero", "long"}
  /\ nsucc >= 1
  /\ ncalls >= 3

\* Every OpenFileForDecoding call so far returned false: the last one did,
\* and either it was the only one or no reader has ever opened its file.
NoSuccessfulOpen ==
  /\ ~opened
  /\ opens_left < MaxOpens
  /\ \/ opens_left = MaxOpens - 1
     \/ sources.open + sources.closed = 0

\* C25: while every OpenFileForDecoding call so far has returned false,
\* GetNextMessage returns ClassNotInitialized, reads no block and leaves the
\* caller's message alone.
C25_FailedOpen ==
  (ret.op = "next" /\ NoSuccessfulOpen) =>
    /\ ret.code = "ClassNotInitialized"
    /\ rd = NoBlock
    /\ msg_ptr = CallerMsg

\* C26: once GetNextMessage has returned EndOfStream on an opened source,
\* the next GetNextMessage call returns EndOfStream too and leaves
\* first_header_, last_decoded_header_ and the caller's message unchanged;
\* only OpenFileForDecoding ends this.
C26_EndOfStreamSticky ==
  [][ ( /\ opened
        /\ ret.op = "next"
        /\ ret.code = "EndOfStream"
        /\ ret'.op = "next" )
      => /\ ret'.code = "EndOfStream"
         /\ first_header_' = first_header_
         /\ last_decoded_header_' = last_decoded_header_
         /\ msg_ptr' = msg_ptr
    ]_vars

\* The decoder stands at the start of the source it has just opened: the
\* reader has delivered the first packet, first_header_ is its header, the
\* cursor is at the first block, and packet_ptr_ is null exactly when the
\* first packet has no blocks.
Restarted ==
  /\ opened
  /\ reader_ptr_.open
  /\ reader_ptr_.pos = 1
  /\ parsed_packet_ = [kind |-> OpenCapture[1], idx |-> 1]
  /\ first_header_ = WireHeaderRecord(Payload(OpenCapture[1]))
  /\ block_offset_ = first_block_start
  /\ packet_len_ = Len(Payload(OpenCapture[1]))
  /\ packet_ptr_ = (IF HeaderOnlyPacket(OpenCapture[1]) THEN NULL ELSE "valid")

\* On a source opened after an earlier one was closed, the k-th message
\* returned is the k-th block of the source that is open now, and no call
\* returns anything but Success before all its blocks have been returned.
ReturnsNewSource ==
  ( /\ opened
    /\ sources.closed >= 1
    /\ ret.op = "next"
    /\ CaptureWellFormed(OpenCapture) )
  => /\ (ret.code = "Success" /\ nsucc <= Len(CaptureBlocks(OpenCapture)))
          => LET b == CaptureBlocks(OpenCapture)[nsucc]
             IN /\ rd.read
                /\ rd.idx = b.idx
                /\ rd.off = b.off
                /\ MsgIsBlock(msg_ptr, OpenCapture, b)
     /\ ret.code # "Success" => nsucc >= Len(CaptureBlocks(OpenCapture))

\* C27: a successful OpenFileForDecoding on a decoder that holds an open
\* source (in the middle of a segment, between segments or at end of
\* stream) restarts decoding on the new source: the decoder stands at the
\* start of the new source, and the messages returned afterwards are the
\* blocks of the new source in order, from its first block on.
C27_ReopenRestarts ==
  [][ /\ (sources.open = 1 /\ ret'.op = "open" /\ ret'.code = "true")
         => Restarted'
      /\ ReturnsNewSource'
    ]_vars

\* Both blocks of b.pcap have been returned after another source had been
\* open and was closed.
C27_Witness ==
  /\ opened
  /\ sources.closed >= 1
  /\ reader_ptr_.file = "b.pcap"
  /\ ret.op = "next"
  /\ ret.code = "Success"
  /\ nsucc = 2
  /\ msg_ptr.message_type = 69

====
